---- MODULE Spec2Model ----
(***************************************************************************)
(* Model of the sandboxed stepwise execution tracer (server/tracer.py):    *)
(*   - SandboxedExecutor / trace_execution as a state machine over the     *)
(*     process-wide hooks (builtins.__import__, sys.stdin), the per-thread *)
(*     trace hook (sys.settrace) and the executors' step lists;            *)
(*   - serialize_value as a recursive operator over a heap of objects.     *)
(* Line numbers in the names and comments are those of server/tracer.py.   *)
(***************************************************************************)
EXTENDS Integers, Sequences, FiniteSets, TLC

(***************************************************************************)
(* Bounds of the model.                                                    *)
(***************************************************************************)
\* executors constructed in one behaviour
MaxExec == 2
\* execute() calls started in one behaviour
MaxCalls == 2
\* statements, imports and reads the traced programs perform in one behaviour
MaxEvents == 2

(***************************************************************************)
(* Values.                                                                 *)
(***************************************************************************)
\* threads of the process; sys.settrace is per thread
Threads == {"T1", "T2"}
\* Python's None, for a hook, an executor reference or an input text
None == 0
\* the loader builtins.__import__ holds before any run: the real importer
OriginalImport == 0
\* the stream sys.stdin holds before any run
RealStdin == "<stdin>"
\* input_data values a caller passes: None, or a text
NoInput == "<None>"
InputChoices == {NoInput, "abc"}
\* source lines of the traced program
Lines == {1, 2}
\* f_locals of the traced module frame at a line event
ModuleLocals == {"__builtins__", "x"}
\* names traced programs try to import
ModNames == {"math", "os"}
\* message of a failure the traced program raises itself
Messages == {"boom"}
\* classes of failure: Exception subclasses, the tracer's own TimeoutError,
\* and BaseException subclasses that are not Exceptions (SystemExit,
\* KeyboardInterrupt, GeneratorExit)
Kinds == {"Exception", "TimeoutError", "BaseException"}
NoExc == [kind |-> "none", msg |-> ""]
NoCall == "<no call>"

\* tracer.py:6
ALLOWED_MODULES == {"math", "random"}

VARIABLES
    import_hook,  \* builtins_dict["__import__"]: OriginalImport, or e for executor e's restricted_import
    sys_stdin,    \* sys.stdin: RealStdin, or the text of the StringIO installed at line 188
    tracehook,    \* tracehook[t]: sys.gettrace() of thread t: None, or e for executor e's trace
    executors,    \* sequence of the SandboxedExecutor objects constructed so far
    th,           \* th[t]: the frames of thread t (position, locals, local trace functions)
    imp,          \* imp[t]: the last module-load request of the traced program of t
    rd,           \* rd[t]: the stream the last read-from-input of the traced program of t saw
    outcome,      \* outcome[t]: how the last call of thread t ended
    calls,        \* execute() calls started
    events,       \* traced-program events performed
    heap,         \* serializer: the object graph
    arg,          \* serializer: the arguments of the call
    result        \* serializer: what the call returned

execVars == <<import_hook, sys_stdin, tracehook, executors, th, imp, rd, outcome, calls, events>>
serVars == <<heap, arg, result>>
vars == <<import_hook, sys_stdin, tracehook, executors, th, imp, rd, outcome, calls, events, heap, arg, result>>

(***************************************************************************)
(* The value serializer: serialize_value (lines 17-119).                   *)
(*                                                                         *)
(* A value is a reference: v >= 1 is the object heap[v], its identity      *)
(* id(value) is v; v <= 0 is a primitive (None, a bool, a text, a number). *)
(* An object is [kind, items, keys, name]: items are the references it     *)
(* holds in iteration order, keys the dict keys or attribute names.        *)
(***************************************************************************)
\* objects of the heap
NumObjs == 2
\* references held by all the objects of a heap together
MaxEdges == 3
\* largest max_depth a call is given
MaxDepthArg == 2

\* value[:20], list(value.items())[:20], list(value)[:20] (lines 51, 60, 67)
MaxItems == 20
\* list(instance_dict.items())[:15] (line 85)
MaxAttrs == 15
\* value[:200] (line 42)
MaxText == 200
\* str(k)[:50] (line 61)
MaxKey == 50

Min(a, b) == IF a < b THEN a ELSE b

\* s[:n]
Prefix(s, n) == IF Len(s) > n THEN SubSeq(s, 1, n) ELSE s

\* attr_name.startswith("__") (lines 86, 142); it covers line 140's "__builtins__"
StartsWithDunder(key) == Len(key) >= 2 /\ SubSeq(key, 1, 2) = "__"

\* renderings: JSON values, tagged by their type
Null == [t |-> "null"]
Bool(b) == [t |-> "bool", b |-> b]
Num(n) == [t |-> "num", n |-> n]
Text(s) == [t |-> "str", s |-> s]
List(items) == [t |-> "list", items |-> items]
Dict(pairs) == [t |-> "dict", pairs |-> pairs]

\* the primitives (lines 35-42): 0 is None, -1 is True, -2 is the text "s",
\* anything below is the number -v
IsPrimitive(v) == v <= 0
Primitive(v) ==
    CASE v = 0 -> Null
      [] v = -1 -> Bool(TRUE)
      [] v = -2 -> Text(Prefix("s", MaxText))
      [] OTHER -> Num(-v)

\* list(value)[:20] of the set heap[v] is a new list, with an identity of its own
TempList(v) == v + 1000
IsTemp(v) == v > 1000
Obj(h, v) ==
    IF IsTemp(v)
    THEN [kind |-> "list", name |-> "list", keys |-> <<>>,
          items |-> SubSeq(h[v - 1000].items, 1, Min(Len(h[v - 1000].items), MaxItems))]
    ELSE h[v]

\* list(x) of a rendering: a list is copied, a text gives its characters
ListOf(r) ==
    IF r.t = "str"
    THEN List([i \in 1..Len(r.s) |-> Text(SubSeq(r.s, i, i))])
    ELSE r

\* the structural attributes of lines 92-104
SpecialAttrs ==
    <<"val", "value", "data", "key", "left", "right", "next", "prev",
      "children", "root", "head">>

\* obj_id in seen (lines 30-31): without the test every cycle runs to max_depth
CircularRef_Never(obj_id, seen) == FALSE
\* obj_id in seen (lines 30-31)
CircularRef(obj_id, seen) == obj_id \in seen

\* finally: seen.discard(obj_id) (line 119), left out
Discard_Forgotten(seen, obj_id) == seen
\* finally: seen.discard(obj_id) (lines 118-119)
Discard(seen, obj_id) == seen \ {obj_id}

\* the pairs of a sequence of [key, out] records with the later entry of a
\* repeated key winning, as assignment to a dict does
RECURSIVE Assign(_, _)
Assign(pairs, new) ==
    IF new = <<>> THEN pairs
    ELSE Assign(
            IF \E i \in 1..Len(pairs) : pairs[i].key = Head(new).key
            THEN [i \in 1..Len(pairs) |->
                    IF pairs[i].key = Head(new).key THEN Head(new) ELSE pairs[i]]
            ELSE Append(pairs, Head(new)),
            Tail(new))

\* the concatenation of a sequence of sequences
RECURSIVE Flatten(_)
Flatten(ss) == IF ss = <<>> THEN <<>> ELSE Head(ss) \o Flatten(Tail(ss))

\* serialize_value(value, depth, max_depth, seen) on the heap h.  It gives
\*   out:   the value returned;
\*   seen:  the caller's set after the call (the function adds to it and
\*          discards from it; the callees get copies);
\*   calls: the log of this call and of the calls below it, in call order:
\*          the references from the top call's value down to the call's own
\*          (path), its depth and seen arguments and what it returned.
RECURSIVE serialize_value(_, _, _, _, _)
serialize_value(h, value, depth, max_depth, seen) ==
    LET Leaf(out) ==
            [out |-> out, seen |-> seen,
             calls |-> <<[path |-> <<value>>, depth |-> depth, seen |-> seen, out |-> out]>>]
    IN
    IF depth > max_depth THEN Leaf(Text("<max depth reached>"))
    ELSE IF CircularRef(value, seen) THEN Leaf(Text("<circular ref>"))
    ELSE IF IsPrimitive(value) THEN Leaf(Primitive(value))
    ELSE
    LET o == Obj(h, value)
        \* seen.add(obj_id) (line 45); every callee gets seen.copy()
        seen1 == seen \cup {value}
        Child(v) == serialize_value(h, v, depth + 1, max_depth, seen1)
        n == Min(Len(o.items), MaxItems)
        kids == [i \in 1..n |-> Child(o.items[i])]
        \* lines 85-88: the first 15 attributes, those with a dunder name skipped
        m == Min(Len(o.items), MaxAttrs)
        shown == {i \in 1..m : ~StartsWithDunder(o.keys[i])}
        attrs == [i \in 1..m |-> IF i \in shown THEN Child(o.items[i]) ELSE Leaf(Null)]
        \* lines 92-109: hasattr(value, special_attr) and special_attr not in obj_dict
        Has(a) == \E i \in 1..Len(o.items) : o.keys[i] = a
        Get(a) == o.items[CHOOSE i \in 1..Len(o.items) : o.keys[i] = a]
        extra == {j \in 1..Len(SpecialAttrs) :
                     /\ Has(SpecialAttrs[j])
                     /\ ~\E i \in shown : o.keys[i] = SpecialAttrs[j]}
        specials == [j \in 1..Len(SpecialAttrs) |->
                        IF j \in extra THEN Child(Get(SpecialAttrs[j])) ELSE Leaf(Null)]
        \* line 67: the members go through a new list, one level further down
        members == serialize_value(h, TempList(value), depth + 1, max_depth, seen1)
        Pairs(rs, keep, key(_)) ==
            Assign(<<>>, Flatten([i \in 1..Len(rs) |->
                IF i \in keep THEN <<[key |-> key(i), out |-> rs[i].out]>> ELSE <<>>]))
        Logs(rs, keep) ==
            Flatten([i \in 1..Len(rs) |-> IF i \in keep THEN rs[i].calls ELSE <<>>])
        DictKey(i) == Prefix(o.keys[i], MaxKey)
        AttrKey(i) == o.keys[i]
        SpecialKey(j) == SpecialAttrs[j]
        out ==
            CASE o.kind \in {"list", "tuple"} ->
                    List([i \in 1..n |-> kids[i].out]
                         \o (IF Len(o.items) > MaxItems
                             THEN <<Text("... +" \o ToString(Len(o.items) - MaxItems) \o " more")>>
                             ELSE <<>>))
              [] o.kind = "dict" -> Dict(Pairs(kids, 1..n, DictKey))
              [] o.kind \in {"set", "frozenset"} -> ListOf(members.out)
              [] o.kind = "type" -> Text("<class '" \o o.name \o "'>")
              [] o.kind = "function" -> Text("<function " \o o.name \o ">")
              [] o.kind = "instance" ->
                    Dict(Assign(Pairs(attrs, shown, AttrKey), Pairs(specials, extra, SpecialKey)))
              [] OTHER -> Text("<" \o o.name \o ">")
        below ==
            CASE o.kind \in {"list", "tuple", "dict"} -> Logs(kids, 1..n)
              [] o.kind \in {"set", "frozenset"} -> members.calls
              [] o.kind = "instance" -> Logs(attrs, shown) \o Logs(specials, extra)
              [] OTHER -> <<>>
    IN [out |-> out,
        seen |-> Discard(seen1, value),
        calls |-> <<[path |-> <<value>>, depth |-> depth, seen |-> seen, out |-> out]>>
                  \o [i \in 1..Len(below) |->
                        [below[i] EXCEPT !.path = <<value>> \o below[i].path]]]

\* the objects a heap is made of
KindChoices == {"list", "dict", "set", "instance"}
EmptyObj(kind) == [kind |-> kind, name |-> kind, items |-> <<>>, keys |-> <<>>]

\* the key or attribute name of the i-th entry of a dict or an instance
KeyOf(kind, i) ==
    CASE kind = "dict" -> "k" \o ToString(i)
      [] kind = "instance" ->
            (CASE i = 1 -> "val"
               [] i = 2 -> "next"
               [] i = 3 -> "__dict"
               [] i = 17 -> "head"
               [] OTHER -> "a" \o ToString(i))
      [] OTHER -> ""

\* an object too wide to be shown whole: one more entry than the item cap
WideObj(kind) ==
    [kind |-> kind, name |-> kind,
     items |-> [i \in 1..(MaxItems + 1) |-> -(i + 2)],
     keys |-> [i \in 1..(MaxItems + 1) |-> KeyOf(kind, i)]]

\* int, str, instances are hashable; list, dict and set are not
Hashable(h, v) ==
    IF IsPrimitive(v) THEN TRUE
    ELSE h[v].kind \in {"instance", "type", "function", "tuple", "frozenset"}

TotalItems(h) ==
    LET RECURSIVE Sum(_)
        Sum(k) == IF k = 0 THEN 0 ELSE Len(h[k].items) + Sum(k - 1)
    IN Sum(Len(h))

NoArg == [value |-> 0, depth |-> 0, max_depth |-> 0, seen |-> {}]
NotCalled == [called |-> FALSE]

(***************************************************************************)
(* The executor: SandboxedExecutor and trace_execution.                    *)
(***************************************************************************)
\* f"Import of '{name}' is not allowed" (line 133)
ImportMsg(name) == "Import of '" \o name \o "' is not allowed"

\* `if input_data:` (line 187): None and the empty text are both false
Truthy(input_data) == input_data # NoInput /\ input_data # ""

\* the names a frame binds when the statement at `line` is about to run
FrameLocals(frame, line) ==
    CASE frame = "execute" ->
            {"self", "code", "input_data"}
              \cup (IF line > 186 THEN {"old_stdin"} ELSE {})
              \cup (IF line > 190 THEN {"builtins_dict"} ELSE {})
              \cup (IF line > 197 THEN {"old_trace"} ELSE {})
              \cup (IF line > 200 THEN {"namespace"} ELSE {})
              \cup (IF line = 209 THEN {"e"} ELSE {})
      [] frame = "trace_execution" ->
            {"code", "input_data"}
              \cup (IF line > 219 THEN {"executor"} ELSE {})
              \cup (IF line \in 222..231 THEN {"trace"} ELSE {})
              \cup (IF line = 237 THEN {"e"} ELSE {})
      [] frame = "__init__" ->
            {"self", "timeout"} \cup (IF line > 127 THEN {"builtins_dict"} ELSE {})
      [] frame = "restricted_import" ->
            {"self", "name", "globals", "locals", "fromlist", "level"}
      [] OTHER -> ModuleLocals

\* the filtered call stack of lines 157-166: frames named trace are skipped,
\* the walk stops at execute, the rest is reversed to outermost first
FrameStack(frame) ==
    CASE frame = "execute" -> <<>>
      [] frame = "trace_execution" -> <<"<caller>", "trace_execution">>
      [] frame = "__init__" -> <<"<caller>", "__init__">>
      [] frame = "restricted_import" -> <<"<module>", "restricted_import">>
      [] OTHER -> <<"<module>">>

\* SandboxedExecutor.trace for event == "line": the executor after the call
trace(self, line, f_locals, stack) ==
    [self EXCEPT
        !.step_counter = self.step_counter + 1,
        !.trace_steps = Append(self.trace_steps,
            [step |-> self.step_counter + 1,
             line |-> line,
             locals |-> {key \in f_locals : ~StartsWithDunder(key)},
             stack |-> stack])]

\* The interpreter delivers the line events of `lines`, in order, of a frame
\* whose local trace function is f_trace while the thread's hook is hook:
\* nothing is delivered when either is None (sys.settrace, line 198).
RECURSIVE LineEvents(_, _, _, _, _)
LineEvents(exs, hook, f_trace, frame, lines) ==
    IF lines = <<>> \/ hook = None \/ f_trace = None THEN exs
    ELSE LineEvents(
            [exs EXCEPT ![f_trace] =
                trace(exs[f_trace], Head(lines), FrameLocals(frame, Head(lines)),
                      FrameStack(frame))],
            hook, f_trace, frame, Tail(lines))

\* SandboxedExecutor.__init__ (lines 123-128): the new executor
\* held: whether a caller holds the object and may call execute on it again
\* (trace_execution keeps its executor to itself)
NewExecutorObject(loader, held) ==
    [trace_steps |-> <<>>, step_counter |-> 0, original_import |-> loader,
     held |-> held]

\* restricted_import without the allow-list test of line 131
restricted_import_Open(exs, loader, name) == "loaded"
\* restricted_import (lines 130-133) of the executor `loader`, or the real
\* importer: whether the request for `name` ends loaded or rejected
RECURSIVE restricted_import(_, _, _)
restricted_import(exs, loader, name) ==
    IF loader = OriginalImport THEN "loaded"
    ELSE IF name \in ALLOWED_MODULES
         THEN restricted_import(exs, exs[loader].original_import, name)
         ELSE "rejected"

\* the loader that finally serves the request, None when it is rejected
RECURSIVE ServedBy(_, _, _)
ServedBy(exs, loader, name) ==
    IF loader = OriginalImport THEN "builtin"
    ELSE IF name \in ALLOWED_MODULES
         THEN ServedBy(exs, exs[loader].original_import, name)
         ELSE "nobody"

\* the lines of the restricted_import frames the request runs through
RECURSIVE ImportLines(_, _, _)
ImportLines(exs, loader, name) ==
    IF loader = OriginalImport THEN <<>>
    ELSE IF name \in ALLOWED_MODULES
         THEN <<131, 132>> \o ImportLines(exs, exs[loader].original_import, name)
         ELSE <<131, 133>>

\* the synthetic steps of trace_execution (lines 223-230, 233-235, 237)
PaddingStep == [step |-> 1, line |-> 0, locals |-> {}, stack |-> <<>>]
ErrorStep(msg) == [step |-> 1, line |-> 0, locals |-> {}, stack |-> <<>>, error |-> msg]

IdleThread ==
    [pc |-> "idle", entry |-> "none", self |-> None, input_data |-> NoInput,
     old_stdin |-> RealStdin, old_trace |-> None,
     ft_te |-> None, ft_ex |-> None, ft_mod |-> None,
     exc |-> NoExc, fail |-> NoExc, hook0 |-> None, before |-> NoCall]
\* before: the input_data of the thread's previous call, NoCall when there was none
NoImport == [name |-> "", loader |-> None, result |-> "", served |-> "", msg |-> ""]
NoRead == "<no read>"
NoOutcome ==
    [status |-> "none", steps |-> <<>>, exc |-> NoExc, entry |-> "none",
     input_data |-> NoInput, fail |-> NoExc, hook0 |-> None, self |-> None]

InitExec ==
    /\ import_hook = OriginalImport
    /\ sys_stdin = RealStdin
    /\ tracehook = [t \in Threads |-> None]
    /\ executors = <<>>
    /\ th = [t \in Threads |-> IdleThread]
    /\ imp = [t \in Threads |-> NoImport]
    /\ rd = [t \in Threads |-> NoRead]
    /\ outcome = [t \in Threads |-> NoOutcome]
    /\ calls = 0
    /\ events = 0

\* no thread is inside execute() of executor e
NotRunning(e) == \A u \in Threads : th[u].pc = "idle" \/ th[u].self # e

\* A caller constructs an executor of its own: SandboxedExecutor() (lines 123-128)
NewExecutor(t) ==
    /\ th[t].pc = "idle"
    /\ Len(executors) < MaxExec
    /\ executors' = Append(
          LineEvents(executors, tracehook[t], tracehook[t], "__init__",
                     <<124, 125, 126, 127, 128>>),
          NewExecutorObject(import_hook, TRUE))
    /\ UNCHANGED <<import_hook, sys_stdin, tracehook, th, imp, rd, outcome, calls, events, serVars>>

\* A caller calls executor.execute(code, input_data) on an executor it holds:
\* the call event gives the frame the thread's hook as local trace function
ExecuteCall(t, e, input_data) ==
    /\ th[t].pc = "idle"
    /\ e \in 1..Len(executors)
    /\ executors[e].held
    /\ NotRunning(e)
    /\ calls < MaxCalls
    /\ calls' = calls + 1
    /\ th' = [th EXCEPT ![t] =
          [IdleThread EXCEPT !.pc = "L183", !.entry = "execute", !.self = e,
                             !.input_data = input_data, !.ft_ex = tracehook[t],
                             !.hook0 = tracehook[t],
                             !.before = IF th[t].entry = "none" THEN NoCall
                                        ELSE th[t].input_data]]
    /\ imp' = [imp EXCEPT ![t] = NoImport]
    /\ rd' = [rd EXCEPT ![t] = NoRead]
    /\ outcome' = [outcome EXCEPT ![t] = NoOutcome]
    /\ UNCHANGED <<import_hook, sys_stdin, tracehook, executors, events, serVars>>

\* trace_execution(code, input_data), lines 218-221: constructs the executor
\* (line 219, __init__ lines 124-128) and calls its execute
TraceExecutionCall(t, input_data) ==
    /\ th[t].pc = "idle"
    /\ Len(executors) < MaxExec
    /\ calls < MaxCalls
    /\ calls' = calls + 1
    /\ LET hook == tracehook[t]
           ex1 == LineEvents(executors, hook, hook, "trace_execution", <<219>>)
           ex2 == LineEvents(ex1, hook, hook, "__init__", <<124, 125, 126, 127, 128>>)
           ex3 == Append(ex2, NewExecutorObject(import_hook, FALSE))
           ex4 == LineEvents(ex3, hook, hook, "trace_execution", <<220, 221>>)
       IN /\ executors' = ex4
          /\ th' = [th EXCEPT ![t] =
                [IdleThread EXCEPT !.pc = "L183", !.entry = "trace_execution",
                                   !.self = Len(ex3), !.input_data = input_data,
                                   !.ft_te = hook, !.ft_ex = hook,
                                   !.hook0 = hook,
                                   !.before = IF th[t].entry = "none" THEN NoCall
                                              ELSE th[t].input_data]]
    /\ imp' = [imp EXCEPT ![t] = NoImport]
    /\ rd' = [rd EXCEPT ![t] = NoRead]
    /\ outcome' = [outcome EXCEPT ![t] = NoOutcome]
    /\ UNCHANGED <<import_hook, sys_stdin, tracehook, events, serVars>>

\* execute, lines 183-186: reset the step list and the counter, save sys.stdin.
\* Each line's event is delivered before the line runs.
ExecuteReset(t) ==
    /\ th[t].pc = "L183"
    /\ LET e == th[t].self
           hook == tracehook[t]
           f == th[t].ft_ex
           ex1 == LineEvents(executors, hook, f, "execute", <<183>>)
           ex2 == [ex1 EXCEPT ![e].trace_steps = <<>>]
           ex3 == LineEvents(ex2, hook, f, "execute", <<184>>)
           ex4 == [ex3 EXCEPT ![e].step_counter = 0]
       IN executors' = LineEvents(ex4, hook, f, "execute", <<186>>)
    /\ th' = [th EXCEPT ![t].pc = "L187", ![t].old_stdin = sys_stdin]
    /\ UNCHANGED <<import_hook, sys_stdin, tracehook, imp, rd, outcome, calls, events, serVars>>

\* execute, lines 187-188: redirect sys.stdin when input_data is true
ExecuteStdin(t) ==
    /\ th[t].pc = "L187"
    /\ executors' = LineEvents(executors, tracehook[t], th[t].ft_ex, "execute",
          IF Truthy(th[t].input_data) THEN <<187, 188>> ELSE <<187>>)
    /\ sys_stdin' = IF Truthy(th[t].input_data) THEN th[t].input_data ELSE sys_stdin
    /\ th' = [th EXCEPT ![t].pc = "L190"]
    /\ UNCHANGED <<import_hook, tracehook, imp, rd, outcome, calls, events, serVars>>

\* execute, lines 190-201: install restricted_import, save the thread's hook,
\* install self.trace and call exec(); the call event makes the hook the
\* local trace function of the module frame
ExecuteInstall(t) ==
    /\ th[t].pc = "L190"
    /\ LET e == th[t].self
           f == th[t].ft_ex
           ex1 == LineEvents(executors, tracehook[t], f, "execute",
                             <<190, 191, 193, 197, 198>>)
       IN executors' = LineEvents(ex1, e, f, "execute", <<200, 201>>)
    /\ import_hook' = th[t].self
    /\ tracehook' = [tracehook EXCEPT ![t] = th[t].self]
    /\ th' = [th EXCEPT ![t].pc = "exec", ![t].old_trace = tracehook[t],
                        ![t].ft_mod = th[t].self]
    /\ UNCHANGED <<sys_stdin, imp, rd, outcome, calls, events, serVars>>

\* execute, lines 206-209: the except clauses met by the failure exc:
\* the line events they fire
ExceptLines(exc) ==
    CASE exc.kind = "TimeoutError" -> <<206, 207>>
      [] exc.kind = "Exception" -> <<206, 208, 209>>
      [] OTHER -> <<206, 208>>

\* execute, lines 206-209: the failure that leaves the try statement: a
\* TimeoutError is replaced, an Exception is raised again, anything else
\* matches no clause
ExceptClauses(exc) ==
    IF exc.kind = "TimeoutError"
    THEN [kind |-> "TimeoutError", msg |-> "Execution exceeded timeout"]
    ELSE exc

\* the traced program is about to run the statement at `line`
TracedLine(t, line) ==
    /\ th[t].pc = "exec"
    /\ events < MaxEvents
    /\ events' = events + 1
    /\ executors' = LineEvents(executors, tracehook[t], th[t].ft_mod, "<module>", <<line>>)
    /\ UNCHANGED <<import_hook, sys_stdin, tracehook, th, imp, rd, outcome, calls, serVars>>

\* the traced program imports `name`: the import statement calls whatever
\* builtins.__import__ holds now; a rejection is either handled by the traced
\* program (it goes on) or leaves exec() and meets the except clauses
TracedImport(t, name, handled) ==
    /\ th[t].pc = "exec"
    /\ events < MaxEvents
    /\ events' = events + 1
    /\ LET res == restricted_import(executors, import_hook, name)
           exc == [kind |-> "Exception", msg |-> ImportMsg(name)]
           ex1 == LineEvents(executors, tracehook[t], tracehook[t],
                             "restricted_import", ImportLines(executors, import_hook, name))
       IN /\ imp' = [imp EXCEPT ![t] =
                 [name |-> name, loader |-> import_hook, result |-> res,
                  served |-> ServedBy(executors, import_hook, name),
                  msg |-> IF res = "rejected" THEN ImportMsg(name) ELSE ""]]
          /\ IF res = "rejected" /\ ~handled
             THEN /\ executors' = LineEvents(ex1, tracehook[t], th[t].ft_ex, "execute",
                                             ExceptLines(exc))
                  /\ th' = [th EXCEPT ![t].pc = "L211", ![t].fail = exc,
                                      ![t].exc = ExceptClauses(exc)]
             ELSE /\ handled
                  /\ executors' = ex1
                  /\ UNCHANGED th
    /\ UNCHANGED <<import_hook, sys_stdin, tracehook, rd, outcome, calls, serVars>>

\* the traced program reads from sys.stdin (input(), sys.stdin.read())
TracedInput(t) ==
    /\ th[t].pc = "exec"
    /\ events < MaxEvents
    /\ events' = events + 1
    /\ rd' = [rd EXCEPT ![t] = sys_stdin]
    /\ UNCHANGED <<import_hook, sys_stdin, tracehook, executors, th, imp, outcome, calls, serVars>>

\* exec() returns normally; line 203 restores the hook saved at line 197
TracedReturn(t) ==
    /\ th[t].pc = "exec"
    /\ executors' = LineEvents(executors, tracehook[t], th[t].ft_ex, "execute", <<203>>)
    /\ tracehook' = [tracehook EXCEPT ![t] = th[t].old_trace]
    /\ th' = [th EXCEPT ![t].pc = "L211"]
    /\ UNCHANGED <<import_hook, sys_stdin, imp, rd, outcome, calls, events, serVars>>

\* the traced program raises a failure it does not handle (a SyntaxError of
\* exec() itself is the case of no statement observed); control goes from
\* line 201 to the except clauses, lines 206-209, and line 203 is skipped
TracedRaise(t, kind, msg) ==
    /\ th[t].pc = "exec"
    /\ LET exc == [kind |-> kind, msg |-> msg]
       IN /\ executors' = LineEvents(executors, tracehook[t], th[t].ft_ex, "execute",
                                     ExceptLines(exc))
          /\ th' = [th EXCEPT ![t].pc = "L211", ![t].fail = exc,
                              ![t].exc = ExceptClauses(exc)]
    /\ UNCHANGED <<import_hook, sys_stdin, tracehook, imp, rd, outcome, calls, events, serVars>>

\* the finally clause without line 211: sys.stdin is left as the run set it
ExecuteRestoreStdin_Skipped(t) ==
    /\ th[t].pc = "L211"
    /\ executors' = LineEvents(executors, tracehook[t], th[t].ft_ex, "execute", <<211>>)
    /\ th' = [th EXCEPT ![t].pc = "L212"]
    /\ UNCHANGED <<import_hook, sys_stdin, tracehook, imp, rd, outcome, calls, events, serVars>>

\* execute, line 211 (finally): sys.stdin = old_stdin
ExecuteRestoreStdin(t) ==
    /\ th[t].pc = "L211"
    /\ executors' = LineEvents(executors, tracehook[t], th[t].ft_ex, "execute", <<211>>)
    /\ sys_stdin' = th[t].old_stdin
    /\ th' = [th EXCEPT ![t].pc = "L212"]
    /\ UNCHANGED <<import_hook, tracehook, imp, rd, outcome, calls, events, serVars>>

\* trace_execution, lines 222-237: what the wrapper makes of execute's end:
\* the line events of its frame
WrapperLines(exc, trace_steps) ==
    CASE exc = NoExc /\ trace_steps = <<>> -> <<222, 225, 226, 227, 228, 224, 223>>
      [] exc = NoExc /\ trace_steps # <<>> -> <<222, 231>>
      [] exc.kind = "TimeoutError" -> <<232, 234, 233>>
      [] exc.kind = "Exception" -> <<232, 236, 237>>
      [] OTHER -> <<232, 236>>

\* trace_execution, lines 220-237: the end of the call as its caller sees it
trace_execution(exc, trace_steps) ==
    CASE exc = NoExc /\ trace_steps = <<>> ->
            [status |-> "returned", steps |-> <<PaddingStep>>, exc |-> NoExc]
      [] exc = NoExc /\ trace_steps # <<>> ->
            [status |-> "returned", steps |-> trace_steps, exc |-> NoExc]
      [] exc.kind = "TimeoutError" ->
            [status |-> "returned",
             steps |-> <<ErrorStep("Execution timeout exceeded")>>, exc |-> NoExc]
      [] exc.kind = "Exception" ->
            [status |-> "returned", steps |-> <<ErrorStep(exc.msg)>>, exc |-> NoExc]
      [] OTHER ->
            [status |-> "raised", steps |-> <<>>, exc |-> exc]

\* execute, lines 212-215: restore builtins __import__ (finally), then return
\* self.trace_steps or let the pending failure leave the frame; a direct
\* caller gets either, trace_execution's caller what lines 222-237 make of it
ExecuteFinish(t) ==
    /\ th[t].pc = "L212"
    /\ LET e == th[t].self
           exc == th[t].exc
           ex1 == LineEvents(executors, tracehook[t], th[t].ft_ex, "execute",
                             IF exc = NoExc THEN <<212, 215>> ELSE <<212>>)
           steps == ex1[e].trace_steps
           end == IF th[t].entry = "execute"
                  THEN IF exc = NoExc
                       THEN [status |-> "returned", steps |-> steps, exc |-> NoExc]
                       ELSE [status |-> "raised", steps |-> <<>>, exc |-> exc]
                  ELSE trace_execution(exc, steps)
       IN /\ executors' =
                IF th[t].entry = "execute" THEN ex1
                ELSE LineEvents(ex1, tracehook[t], th[t].ft_te, "trace_execution",
                                WrapperLines(exc, steps))
          /\ outcome' = [outcome EXCEPT ![t] =
                [status |-> end.status, steps |-> end.steps, exc |-> end.exc,
                 entry |-> th[t].entry, input_data |-> th[t].input_data,
                 fail |-> th[t].fail, hook0 |-> th[t].hook0, self |-> e]]
    /\ import_hook' = executors[th[t].self].original_import
    /\ th' = [th EXCEPT ![t].pc = "idle"]
    /\ UNCHANGED <<sys_stdin, tracehook, imp, rd, calls, events, serVars>>

\* one step of thread t inside a call
Run(t) ==
    \/ ExecuteReset(t)
    \/ ExecuteStdin(t)
    \/ ExecuteInstall(t)
    \/ \E line \in Lines : TracedLine(t, line)
    \/ \E name \in ModNames, handled \in BOOLEAN : TracedImport(t, name, handled)
    \/ TracedInput(t)
    \/ TracedReturn(t)
    \/ \E kind \in Kinds, msg \in Messages : TracedRaise(t, kind, msg)
    \/ ExecuteRestoreStdin(t)
    \/ ExecuteFinish(t)

Init ==
    /\ InitExec
    /\ heap = <<>>
    /\ arg = NoArg
    /\ result = NotCalled

\* calls are made one after the other, by one thread: through trace_execution,
\* or on an executor the caller constructed and may use again
MainThread == "T1"

Next ==
    \/ NewExecutor(MainThread)
    \/ \E e \in 1..MaxExec, input_data \in InputChoices :
          ExecuteCall(MainThread, e, input_data)
    \/ \E input_data \in InputChoices : TraceExecutionCall(MainThread, input_data)
    \/ Run(MainThread)

Spec == Init /\ [][Next]_vars

\* trace_execution calls of different threads interleave freely: nothing in
\* tracer.py serialises them
NextConc ==
    \E t \in Threads :
        \/ \E input_data \in InputChoices : TraceExecutionCall(t, input_data)
        \/ Run(t)

SpecConc == Init /\ [][NextConc]_vars

\* The serializer is applied to the heaps the program can build.
InitSer ==
    /\ InitExec
    /\ \/ heap \in [1..NumObjs -> {EmptyObj(k) : k \in KindChoices}]
       \/ \E k \in KindChoices :
             heap = [o \in 1..NumObjs |-> IF o = 1 THEN WideObj(k) ELSE EmptyObj("list")]
    /\ arg = NoArg
    /\ result = NotCalled

\* the program puts a reference to v into the object o
AddItem(o, v) ==
    /\ ~result.called
    /\ TotalItems(heap) < MaxEdges
    /\ heap[o].kind = "set" =>
          /\ Hashable(heap, v)
          /\ \A i \in 1..Len(heap[o].items) : heap[o].items[i] # v
    /\ heap' = [heap EXCEPT ![o].items = Append(@, v),
                            ![o].keys = Append(@, KeyOf(heap[o].kind, Len(heap[o].items) + 1))]
    /\ UNCHANGED <<arg, result, execVars>>

\* serialize_value(value, 0, max_depth, seen) is called on the first object
Serialize(max_depth, seen) ==
    /\ ~result.called
    /\ arg' = [value |-> 1, depth |-> 0, max_depth |-> max_depth, seen |-> seen]
    /\ result' = [called |-> TRUE] @@ serialize_value(heap, 1, 0, max_depth, seen)
    /\ UNCHANGED <<heap, execVars>>

NextSer ==
    \/ \E o \in 1..NumObjs, v \in (1..NumObjs) \cup {-3} : AddItem(o, v)
    \/ \E max_depth \in 1..MaxDepthArg, seen \in {{}, {NumObjs}} : Serialize(max_depth, seen)

SpecSer == InitSer /\ [][NextSer]_vars


(***************************************************************************)
(* Properties of the executor.                                             *)
(***************************************************************************)
\* thread t has finished a call and is back in its caller
Finished(t) == th[t].pc = "idle" /\ outcome[t].status # "none"
FinishedTraceExecution(t) == Finished(t) /\ outcome[t].entry = "trace_execution"

\* C1: however the traced program ends, trace_execution returns a non-empty
\* sequence of Trace Steps and raises nothing to its caller.
C1_AlwaysReturnsSteps ==
    \A t \in Threads :
        FinishedTraceExecution(t) =>
            /\ outcome[t].status = "returned"
            /\ Len(outcome[t].steps) >= 1

\* C2: after execute has finished, normally or by a failure of the traced
\* code, the thread's trace hook is the hook that was active just before the
\* run, and the trace function of a finished run is never left installed.
C2_TraceHookRestored ==
    \A t \in Threads :
        /\ Finished(t) => tracehook[t] = outcome[t].hook0
        /\ tracehook[t] # None =>
              \E u \in Threads : th[u].pc # "idle" /\ th[u].self = tracehook[t]

\* C3: after any sequence of sequential calls, each ending in success or in a
\* failure of the traced code, builtins.__import__ and sys.stdin are the ones
\* that were active before the first call; a read of the traced program sees
\* the text of its own run's input, and the real stdin when its run was given
\* none, whatever input earlier runs were given.
C3_LoaderAndStdinRestored ==
    /\ (\A t \in Threads : th[t].pc = "idle") =>
          /\ import_hook = OriginalImport
          /\ sys_stdin = RealStdin
    /\ \A t \in Threads :
          rd[t] # NoRead =>
              rd[t] = IF Truthy(th[t].input_data) THEN th[t].input_data ELSE RealStdin

\* a run given no input has read from stdin and finished, after a run of the
\* same thread that was given input
C3_Witness ==
    \E t \in Threads :
        /\ Finished(t)
        /\ th[t].before = "abc"
        /\ th[t].input_data = NoInput
        /\ rd[t] = RealStdin
        /\ import_hook = OriginalImport
        /\ sys_stdin = RealStdin

\* C4: for any interleaving of two trace_execution calls, builtins.__import__
\* and sys.stdin are back to their original values once both calls have
\* finished (no call reads, saves or overwrites the hooks of a run in progress).
C4_ConcurrentRunsRestoreHooks ==
    (\A t \in Threads : Finished(t)) =>
        /\ import_hook = OriginalImport
        /\ sys_stdin = RealStdin

C6_StepsDense ==
    \A t \in Threads :
        (Finished(t) /\ outcome[t].status = "returned") =>
            \A k \in 1..Len(outcome[t].steps) : outcome[t].steps[k].step = k

\* C7: when the traced code raises an uncaught failure with message m,
\* trace_execution returns exactly one synthetic step (step 1, line 0, no
\* locals, empty stack) whose error field is m, however many statements
\* were observed before.
C7_FailureGivesOneErrorStep ==
    \A t \in Threads :
        (FinishedTraceExecution(t) /\ outcome[t].fail # NoExc) =>
            /\ outcome[t].status = "returned"
            /\ outcome[t].steps = <<ErrorStep(outcome[t].fail.msg)>>

(***************************************************************************)
(* Properties of the serializer.                                           *)
(***************************************************************************)
\* the value a logged call was given, and the values of the calls above it
\* on its descent path
Own(c) == c.path[Len(c.path)]
Ancestors(c) == {c.path[i] : i \in 1..(Len(c.path) - 1)}
CircularMark == Text("<circular ref>")

\* C8: serialize_value terminates on every object graph, cycles included,
\* never descends deeper than max_depth + 1, and renders a value met again
\* below itself (the point where a cycle closes) as "<circular ref>".
C8_CycleClosesAsCircularRef ==
    result.called =>
        \A i \in 1..Len(result.calls) :
            LET c == result.calls[i]
            IN /\ c.depth <= arg.max_depth + 1
               /\ Own(c) \in Ancestors(c) => c.out = CircularMark

\* C8, amended: serialize_value terminates on every object graph, cycles
\* included, never descends deeper than max_depth + 1, and renders a value
\* met again below itself at a depth of at most max_depth as
\* "<circular ref>" (one level further down the depth test comes first).
C8_CycleWithinDepthIsCircularRef ==
    result.called =>
        \A i \in 1..Len(result.calls) :
            LET c == result.calls[i]
            IN /\ c.depth <= arg.max_depth + 1
               /\ (c.depth <= arg.max_depth /\ Own(c) \in Ancestors(c)) =>
                      c.out = CircularMark

\* a cycle of the graph has closed within the depth bound
C8_Witness ==
    /\ result.called
    /\ \E i \in 1..Len(result.calls) :
          LET c == result.calls[i]
          IN /\ c.depth <= arg.max_depth
             /\ Own(c) \in Ancestors(c)
             /\ c.out = CircularMark

\* C9: cycle detection is path-scoped: a non-primitive value met within the
\* depth bound is rendered "<circular ref>" exactly when it is one of its
\* ancestors on the descent path (or in the seen set the caller passed); an
\* object met twice under the same ancestors is rendered the same way both
\* times; and the caller's seen set holds the same identities after the call
\* as before.
C9_PathScopedCycleDetection ==
    result.called =>
        /\ \A i \in 1..Len(result.calls) :
              LET c == result.calls[i]
              IN (c.depth <= arg.max_depth /\ ~IsPrimitive(Own(c))) =>
                     ((c.out = CircularMark) <=> (Own(c) \in Ancestors(c) \cup arg.seen))
        /\ \A i, j \in 1..Len(result.calls) :
              result.calls[i].path = result.calls[j].path =>
                  result.calls[i].out = result.calls[j].out
        /\ result.seen = arg.seen

\* an object held twice by the same container, and not its own ancestor, is
\* rendered in full in both branches
C9_Witness ==
    /\ result.called
    /\ \E i, j \in 1..Len(result.calls) :
          LET c == result.calls[i]
          IN /\ i < j
             /\ c.path = result.calls[j].path
             /\ Len(c.path) = 2
             /\ ~IsPrimitive(Own(c))
             /\ Own(c) \notin Ancestors(c) \cup arg.seen
             /\ c.out.t \in {"list", "dict"}
             /\ result.calls[j].out = c.out

\* C10: a set met at any depth d <= max_depth is rendered as a sequence with
\* one entry per member, at most 20 and no "+n more" marker, each entry the
\* serialization of the member at depth d + 1, as for the element of a list.
C10_SetMembersAtNextDepth ==
    result.called =>
        \A i \in 1..Len(result.calls) :
            LET c == result.calls[i]
                v == Own(c)
            IN (/\ ~IsPrimitive(v)
                /\ ~IsTemp(v)
                /\ c.depth <= arg.max_depth
                /\ v \notin c.seen
                /\ heap[v].kind \in {"set", "frozenset"}) =>
                   c.out = List([k \in 1..Min(Len(heap[v].items), MaxItems) |->
                               serialize_value(heap, heap[v].items[k], c.depth + 1,
                                               arg.max_depth, c.seen \cup {v}).out])

====
